---- MODULE Spec2Model ----
(***************************************************************************)
(* Verification model of the whole-slide-image patch sampler               *)
(* (src/sampler.py, class Sampler).                                        *)
(*                                                                         *)
(* Conventions.                                                            *)
(*  - Pyramid levels are numbered 0, 1, ... as in the code; the per-level  *)
(*    tuples (level_dimensions, level_downsamples, magnifications) are     *)
(*    sequences, so level l is element l + 1 (operator At).                *)
(*  - Magnifications and tolerances are in hundredths (1.25 is 125, the    *)
(*    default tolerance 0.01 is 1); every table used divides exactly.      *)
(*  - A boolean array is a record [shape |-> <<rows, cols>>, true |-> the  *)
(*    set of <<row, col>> that hold True].                                 *)
(*  - self.background is read at lines 175-179 and assigned nowhere in the *)
(*    module: it is either Unassigned (the read raises AttributeError) or *)
(*    stands for the tissue mask (BackgroundObject).                       *)
(*  - None stands for the Python value None where the code holds a level,  *)
(*    a size or a count (none of which is negative); an attribute that     *)
(*    holds an object or a list has its own empty value (NoSlide, NoArray, *)
(*    NoError, <<>>).                                                       *)
(***************************************************************************)
EXTENDS Integers, Sequences, FiniteSets, TLC

VARIABLES
    wsi,                \* the opened slide: [dims, ds] (self.wsi)
    level0,             \* magnification at level 0 (self.level0)
    annotation_file,    \* the annotation found in annotation_dir, or NoSlide
    background,         \* self.background, or Unassigned
    cache,              \* tissue_mask_dir: file name -> saved array
    pc,                 \* position of the client program
    error,              \* the exception that ended the last call, or NoError
    magnifications,     \* self.magnifications
    tissue_mask,        \* self.tissue_mask
    tissue_mask_level,  \* self.tissue_mask_level
    annotation,         \* self.annotation
    level,              \* self.level
    leveldim,           \* self.leveldim
    ps,                 \* self.ps
    ps_tm,              \* self.ps_tm
    annotation_level,   \* self.annotation_level
    class_list,         \* self.class_list
    class_seeds,        \* self.class_seeds
    rejected,           \* self.rejected
    max_per_class,      \* argument of the running sample_patches call
    frame,              \* the local frame of sample_patches
    ci,                 \* position of the outer loop (1-based index into class_list)
    j,                  \* position of the inner loop (pool index)
    saved,              \* the patch frame files written, oldest first
    probe,              \* the last direct call of a resolver method, with its result
    hist                \* history of the calls (never read by the program)

vars == <<wsi, level0, annotation_file, background, cache, pc, error,
          magnifications, tissue_mask, tissue_mask_level, annotation, level,
          leveldim, ps, ps_tm, annotation_level, class_list, class_seeds,
          rejected, max_per_class, frame, ci, j, saved, probe, hist>>

None == -1
ValueError == -2
Unassigned == "Unassigned"
NoSlide == [dims |-> <<>>, ds |-> <<>>, base |-> <<>>]
NoArray == [shape |-> <<0, 0>>, true |-> {}]
NoError == [type |-> "none", line |-> 0]
NoProbe == [fn |-> "none", args |-> <<>>, result |-> None, back |-> None]

----------------------------------------------------------------------------
(* Bounds of the model.                                                    *)

MaxPerClass == 3        \* max_per_class ranges over 0 .. MaxPerClass
MaxCalls == 1           \* sample_patches calls per prepared session
MaxValue == 9           \* coordinates/lengths given to level_converter
MaxSide == 10           \* side of the background patch in the boundary cases

----------------------------------------------------------------------------
(* Helpers for Python containers.                                          *)

At(seq, l) == seq[l + 1]

Levels(seq) == 0 .. Len(seq) - 1

\* list.index / tuple.index: the first position holding x; ValueError if none.
Index(seq, x) ==
    IF \E l \in Levels(seq) : At(seq, l) = x
    THEN CHOOSE l \in Levels(seq) :
            /\ At(seq, l) = x
            /\ \A k \in Levels(seq) : At(seq, k) = x => l <= k
    ELSE ValueError

Abs(x) == IF x < 0 THEN -x ELSE x

Min(a, b) == IF a < b THEN a ELSE b

\* int(): truncation of num/den towards zero, den > 0.
IntDiv(num, den) == IF num >= 0 THEN num \div den ELSE -((-num) \div den)

\* every ordering random.shuffle can leave a list of the elements of S in
Orderings(S) ==
    {f \in [1 .. Cardinality(S) -> S] :
        \A a, b \in 1 .. Cardinality(S) : a # b => f[a] # f[b]}

----------------------------------------------------------------------------
(* The slides, masks and annotations the model draws its inputs from.      *)

fileID == "slide"

\* openslide handles: level_dimensions are (width, height), level 0 first
Pyramids ==
    { [dims |-> << <<4, 2>>, <<2, 1>> >>,            ds |-> <<1, 2>>],
      [dims |-> << <<8, 4>>, <<2, 1>> >>,            ds |-> <<1, 4>>],
      [dims |-> << <<2, 2>> >>,                      ds |-> <<1>>],
      [dims |-> << <<10, 5>>, <<5, 2>>, <<2, 1>> >>, ds |-> <<1, 2, 5>>] }

\* the level0 argument, or the objective power inferred from the slide
Level0s == {10, 40}

Cells(shape) == (0 .. shape[1] - 1) \X (0 .. shape[2] - 1)

\* every boolean array of a shape
BoolArrays(shape) == {[shape |-> shape, true |-> t] : t \in SUBSET Cells(shape)}

\* a label raster: level-0 labels, read at level l by point sampling
LabelAt(a, l, r, c) ==
    LET dim == At(a.dims, l) IN
    IF r >= 0 /\ r < dim[2] /\ c >= 0 /\ c < dim[1]
    THEN a.base[<<r * At(a.ds, l), c * At(a.ds, l)>>]
    ELSE 0      \* outside the slide a region reads as 0

Annotations ==
    { [dims |-> << <<2, 2>> >>, ds |-> <<1>>,
       base |-> [x \in Cells(<<2, 2>>) |->
                    IF x = <<0, 1>> THEN 1 ELSE IF x = <<1, 1>> THEN 2 ELSE 0]],
      [dims |-> << <<4, 2>>, <<2, 1>> >>, ds |-> <<1, 2>>,
       base |-> [x \in Cells(<<2, 4>>) |->
                    IF x \in {<<0, 2>>, <<1, 2>>} THEN 1
                    ELSE IF x = <<0, 3>> THEN 2 ELSE 0]],
      [dims |-> << <<2, 2>> >>, ds |-> <<1>>,
       base |-> [x \in Cells(<<2, 2>>) |-> 1]] }

\* arguments the client passes
MagnificationArgs == {1000, 500}
PatchSizes == {1, 2}
DownArgs == {1, 2}

----------------------------------------------------------------------------
(* Level resolver.                                                         *)

\* self.magnifications, in hundredths
MagnificationTable(slide, l0) ==
    [i \in 1 .. Len(slide.ds) |-> (l0 * 100) \div slide.ds[i]]

\* utils.val_in_list: <<truth, idx>>, idx the entry nearest to val (the first
\* of equals), truth whether it lies within tol of val
val_in_list(val, list, tol) ==
    LET diff(l) == Abs(At(list, l) - val)
        idx == CHOOSE l \in Levels(list) :
                  \A k \in Levels(list) :
                      diff(l) < diff(k) \/ (diff(l) = diff(k) /\ l <= k)
    IN  <<diff(idx) <= tol, idx>>

\* variant: the index is returned whether or not it is within the tolerance
get_level_Mutant(mags, magnification, tol) ==
    val_in_list(magnification, mags, tol)[2]

get_level(mags, magnification, tol) ==
    LET r == val_in_list(magnification, mags, tol) IN
    IF ~r[1] THEN None ELSE r[2]

\* variant: the two downsample factors exchanged
level_converter_Mutant(slide, x, lvl_in, lvl_out) ==
    IntDiv(x * At(slide.ds, lvl_out), At(slide.ds, lvl_in))

level_converter(slide, x, lvl_in, lvl_out) ==
    IntDiv(x * At(slide.ds, lvl_in), At(slide.ds, lvl_out))

----------------------------------------------------------------------------
(* Collaborators outside sampler.py.                                       *)

\* utils.string_in_directory: <<truth, string>>, the file of the directory
\* whose name holds the identifier
string_in_directory(id, dir) ==
    IF \E f \in DOMAIN dir : f[1] = id
    THEN <<TRUE, CHOOSE f \in DOMAIN dir : f[1] = id>>
    ELSE <<FALSE, <<>>>>

\* tissue_mask_generation.generate_tissue_mask: some boolean array of the
\* level's size, rows by columns (so the dtype assertions of lines 54 and 63
\* pass)
generate_tissue_mask(slide, lvl) ==
    BoolArrays(<<At(slide.dims, lvl)[2], At(slide.dims, lvl)[1]>>)

\* utils.get_level: the level whose downsample is nearest to the desired one
ut_get_level(slide, desired_downsampling, threshold) ==
    val_in_list(desired_downsampling, slide.ds, threshold)[2]

\* the object self.background stands for: the tissue mask, at its level, with
\* the patch side in the mask's frame
BackgroundObject ==
    [level |-> tissue_mask_level, data |-> tissue_mask, patchsize |-> ps_tm]

----------------------------------------------------------------------------
(* Construction: Sampler.__init__.                                         *)

Raise(type, line) == [type |-> type, line |-> line]

MaskFile == <<fileID, "_tm.npy">>

\* variant: the shape looked up as it is, not reversed
LoadedMaskLevel_Mutant(slide, array) == Index(slide.dims, array.shape)

\* line 64: the level whose dimensions are the array's shape, reversed
LoadedMaskLevel(slide, array) ==
    Index(slide.dims, <<array.shape[2], array.shape[1]>>)

Init ==
    /\ wsi \in Pyramids
    /\ level0 \in Level0s
    /\ annotation_file \in {NoSlide} \cup Annotations
    /\ background \in {Unassigned, "tissue mask"}
    /\ cache \in {<<>>, [f \in {MaskFile} |-> [shape |-> <<3, 3>>, true |-> {}]]}
    /\ pc = "new"
    /\ error = NoError
    /\ magnifications = <<>>
    /\ tissue_mask = NoArray
    /\ tissue_mask_level = None
    /\ annotation = NoSlide
    /\ level = None
    /\ leveldim = <<>>
    /\ ps = None
    /\ ps_tm = None
    /\ annotation_level = None
    /\ class_list = <<>>
    /\ class_seeds = <<>>
    /\ rejected = None
    /\ max_per_class = None
    /\ frame = <<>>
    /\ ci = None
    /\ j = None
    /\ saved = <<>>
    /\ probe = NoProbe
    /\ hist = [call |-> "none", generated |-> <<>>, calls |-> 0, base |-> 0,
               attempts |-> <<>>]

SessionVars == <<level, leveldim, ps, ps_tm, annotation_level, class_list,
                 class_seeds, rejected>>
LoopVars == <<max_per_class, frame, ci, j, saved>>
EnvVars == <<wsi, level0, annotation_file, background, probe>>

\* lines 49-59: no mask file for this image
ConstructMiss ==
    /\ pc \in {"new", "ready"}
    /\ ~string_in_directory(fileID, cache)[1]
    /\ magnifications' = MagnificationTable(wsi, level0)
    /\ LET lvl == get_level(magnifications', 125, 1000) IN
       IF lvl = None
       THEN \* line 51: self.magnifications[None]
            /\ pc' = "raised"
            /\ error' = Raise("TypeError", 51)
            /\ tissue_mask_level' = None
            /\ hist' = [hist EXCEPT !.call = "construct miss"]
            /\ UNCHANGED <<tissue_mask, annotation, cache>>
       ELSE \E m \in generate_tissue_mask(wsi, lvl) :
            /\ tissue_mask_level' = lvl
            /\ tissue_mask' = m
            /\ cache' = [f \in {MaskFile} |-> m]
            /\ annotation' = annotation_file
            /\ pc' = "ready"
            /\ error' = NoError
            /\ hist' = [hist EXCEPT !.call = "construct miss",
                                    !.generated = <<[mask |-> m, level |-> lvl]>>]
    /\ UNCHANGED <<EnvVars, SessionVars, LoopVars>>

\* lines 60-65: a mask file for this image exists
ConstructHit ==
    /\ pc \in {"new", "ready"}
    /\ string_in_directory(fileID, cache)[1]
    /\ magnifications' = MagnificationTable(wsi, level0)
    /\ LET loaded == cache[string_in_directory(fileID, cache)[2]]
           lvl == LoadedMaskLevel(wsi, loaded)
       IN  /\ tissue_mask' = loaded
           /\ IF lvl = ValueError
              THEN /\ pc' = "raised"
                   /\ error' = Raise("ValueError", 64)
                   /\ UNCHANGED <<tissue_mask_level, annotation>>
              ELSE /\ tissue_mask_level' = lvl
                   /\ annotation' = annotation_file
                   /\ pc' = "ready"
                   /\ error' = NoError
    /\ hist' = [hist EXCEPT !.call = "construct hit"]
    /\ UNCHANGED <<EnvVars, cache, SessionVars, LoopVars>>

----------------------------------------------------------------------------
(* Seed generation: Sampler._get_classes_and_seeds.                        *)

\* lines 136, 158: (int(row * factor), int(col * factor)) for the given cells
Coordinates(cells, factor) == {<<x[1] * factor, x[2] * factor>> : x \in cells}

\* the single-channel raster of an annotation level, rows by columns
LevelShape(slide, l) == <<At(slide.dims, l)[2], At(slide.dims, l)[1]>>

\* line 150: sorted(list(np.unique(annotation_low_res)))
Sorted(S) ==
    CHOOSE f \in Orderings(S) : \A a, b \in 1 .. Cardinality(S) : a < b => f[a] < f[b]

UniqueLabels(a, l) == {LabelAt(a, l, x[1], x[2]) : x \in Cells(LevelShape(a, l))}

\* lines 154-159: the shuffled pool of one annotated class
ClassPools(a, l, c) ==
    Orderings(Coordinates({x \in Cells(LevelShape(a, l)) : LabelAt(a, l, x[1], x[2]) = c},
                          At(a.ds, l)))

\* lines 153-161: one pool per class, in the order of the class sequence
RECURSIVE PoolLists(_, _, _)
PoolLists(a, l, classes) ==
    IF classes = <<>> THEN {<<>>}
    ELSE {<<p>> \o rest : p \in ClassPools(a, l, Head(classes)),
                          rest \in PoolLists(a, l, Tail(classes))}

\* every outcome of the call: the lists built, and the exception if it raised.
\* The name `down` of line 146 is bound nowhere in the module: the lookup
\* raises NameError, unless the embedding program has bound it (DownArgs).
get_classes_and_seeds ==
    LET zero == Orderings(Coordinates(tissue_mask.true, At(wsi.ds, tissue_mask_level)))
        only0(e) == {[class_list |-> <<0>>, class_seeds |-> <<z>>, error |-> e] : z \in zero}
        annotated(d) ==
            LET lvl == ut_get_level(annotation, d, 20)
                classes == Sorted(UniqueLabels(annotation, lvl))
            IN  IF classes[1] # 0 THEN only0(Raise("AssertionError", 151))
                ELSE {[class_list |-> <<0>> \o Tail(classes),
                       class_seeds |-> <<z>> \o rest, error |-> NoError] :
                         z \in zero, rest \in PoolLists(annotation, lvl, Tail(classes))}
    IN  IF annotation = NoSlide THEN only0(NoError)
        ELSE only0(Raise("NameError", 146)) \cup UNION {annotated(d) : d \in DownArgs}

----------------------------------------------------------------------------
(* Sampler.prepare_sampling.                                               *)

prepare_sampling(magnification, patchsize) ==
    /\ pc = "ready"
    /\ LET lvl == get_level(magnifications, magnification, 1) IN
       /\ level' = lvl
       /\ IF lvl = None
          THEN \* line 87: self.wsi.level_dimensions[None]
               /\ pc' = "raised"
               /\ error' = Raise("TypeError", 87)
               /\ hist' = [hist EXCEPT !.call = "prepare"]
               /\ UNCHANGED <<leveldim, ps, ps_tm, annotation_level, class_list,
                              class_seeds, rejected>>
          ELSE /\ leveldim' = At(wsi.dims, lvl)
               /\ ps' = patchsize
               /\ ps_tm' = level_converter(wsi, patchsize, lvl, tissue_mask_level)
               /\ IF annotation # NoSlide /\ Index(annotation.dims, leveldim') = ValueError
                  THEN \* line 94
                       /\ pc' = "raised"
                       /\ error' = Raise("AssertionError", 94)
                       /\ hist' = [hist EXCEPT !.call = "prepare"]
                       /\ UNCHANGED <<annotation_level, class_list, class_seeds,
                                      rejected>>
                  ELSE /\ annotation_level' =
                              IF annotation # NoSlide THEN Index(annotation.dims, leveldim')
                              ELSE annotation_level
                       /\ \E out \in get_classes_and_seeds :
                            /\ class_list' = out.class_list
                            /\ class_seeds' = out.class_seeds
                            /\ error' = out.error
                            /\ IF out.error = NoError
                               THEN pc' = "prepared" /\ rejected' = 0
                               ELSE pc' = "raised" /\ UNCHANGED rejected
                       /\ hist' = [hist EXCEPT !.call = "prepare", !.calls = 0,
                                               !.attempts = <<>>]
    /\ UNCHANGED <<EnvVars, cache, magnifications, tissue_mask, tissue_mask_level,
                   annotation, LoopVars>>

----------------------------------------------------------------------------
(* Patch extraction and rejection: Sampler._class_c_patch_i.               *)

\* line 177: np.sum of data[i:i + side, j:j + side]; a slice past the edge
\* of the array is cut at the edge
SliceSum(data, i, jj, side) ==
    Cardinality({x \in data.true : /\ i <= x[1] /\ x[1] < i + side
                                   /\ jj <= x[2] /\ x[2] < jj + side})

\* variant: a coverage of exactly 0.9 passes
TissueCovered_Mutant(sum, patchsize) ==
    patchsize # 0 /\ 10 * sum >= 9 * patchsize * patchsize

\* line 179: np.sum(background_patch) / patchsize ** 2 > 0.9; a zero side
\* divides by zero, the quotient is nan and the comparison False
TissueCovered(sum, patchsize) ==
    patchsize # 0 /\ 10 * sum > 9 * patchsize * patchsize

\* lines 196-199: the number of pixels of the annotation patch that are not c
OtherLabels(a, l, h, w, side, c) ==
    LET r0 == h \div At(a.ds, l)
        c0 == w \div At(a.ds, l)
    IN  Cardinality({x \in Cells(<<side, side>>) :
                        LabelAt(a, l, r0 + x[1], c0 + x[2]) # c})

\* line 200: np.sum(mask) / self.ps ** 2 > 0.9
MostlyOther(sum, side) == 10 * sum > 9 * side * side

\* the outcome of _class_c_patch_i(c, i): what it returns or raises, and the
\* info dictionary when it accepts
class_c_patch_i(c, i) ==
    LET idx == Index(class_list, c)
        seed == At(At(class_seeds, idx), i)
        h == seed[1]
        w == seed[2]
        info == [w |-> w, h |-> h, parent |-> fileID, size |-> ps,
                 level |-> level, class |-> c, id |-> fileID]
    IN  IF background = Unassigned
        THEN [kind |-> "AttributeError", info |-> <<>>, frac |-> <<>>]
        ELSE LET bg == BackgroundObject
                 bi == level_converter(wsi, h, 0, bg.level)
                 bj == level_converter(wsi, w, 0, bg.level)
                 sum == SliceSum(bg.data, bi, bj, bg.patchsize)
                 frac == <<sum, bg.patchsize * bg.patchsize>>
             IN  IF ~TissueCovered(sum, bg.patchsize)
                 THEN [kind |-> "tissue", info |-> <<>>, frac |-> frac]
                 ELSE IF annotation = NoSlide
                 THEN [kind |-> "accept", info |-> info, frac |-> frac]
                 ELSE IF MostlyOther(OtherLabels(annotation, annotation_level,
                                                 h, w, ps, c), ps)
                 THEN [kind |-> "annotation", info |-> <<>>, frac |-> frac]
                 ELSE [kind |-> "accept", info |-> info, frac |-> frac]

\* variant: the counter is left alone
RejectedAfter_Mutant(n, kind) == n

\* lines 180, 201: self.rejected += 1
RejectedAfter(n, kind) == IF kind \in {"tissue", "annotation"} THEN n + 1 ELSE n

----------------------------------------------------------------------------
(* Sampler.sample_patches, one loop iteration per step.                    *)

\* line 107: the call starts with an empty frame
sample_patches(n) ==
    /\ pc \in {"prepared", "sampled"}
    /\ hist.calls < MaxCalls
    /\ max_per_class' = n
    /\ frame' = <<>>
    /\ ci' = 1
    /\ j' = 0
    /\ pc' = "sampling"
    /\ hist' = [hist EXCEPT !.call = "sample", !.calls = @ + 1, !.base = rejected,
                             !.attempts = <<>>]
    /\ UNCHANGED <<EnvVars, cache, error, magnifications, tissue_mask,
                   tissue_mask_level, annotation, SessionVars, saved>>

\* variant: the break comes one iteration late
CapReached_Mutant(jj, n) == jj >= n

\* line 115: if j >= (max_per_class - 1): break
CapReached(jj, n) == jj >= n - 1

\* variant: a seed is skipped
NextIndex_Mutant(jj) == jj + 2

\* line 111: enumerate moves on to the next index of the pool
NextIndex(jj) == jj + 1

\* lines 111-116: the seed at index j of the current class
Attempt ==
    /\ pc = "sampling"
    /\ ci <= Len(class_list)
    /\ j < Len(class_seeds[ci])
    /\ LET c == class_list[ci]
           out == class_c_patch_i(c, j)
       IN  /\ hist' = [hist EXCEPT !.attempts =
                          Append(@, [class |-> c, index |-> j, kind |-> out.kind,
                                     frac |-> out.frac])]
           /\ IF out.kind = "AttributeError"
              THEN \* line 175
                   /\ pc' = "raised"
                   /\ error' = Raise("AttributeError", 175)
                   /\ UNCHANGED <<rejected, frame, ci, j>>
              ELSE /\ rejected' = RejectedAfter(rejected, out.kind)
                   /\ frame' = IF out.kind = "accept" THEN Append(frame, out.info)
                                ELSE frame
                   /\ IF CapReached(j, max_per_class)
                      THEN ci' = ci + 1 /\ j' = 0
                      ELSE j' = NextIndex(j) /\ UNCHANGED ci
                   /\ UNCHANGED <<pc, error>>
    /\ UNCHANGED <<EnvVars, cache, magnifications, tissue_mask, tissue_mask_level,
                   annotation, level, leveldim, ps, ps_tm, annotation_level,
                   class_list, class_seeds, max_per_class, saved>>

\* line 111: the pool of the current class has no seed left
PoolExhausted ==
    /\ pc = "sampling"
    /\ ci <= Len(class_list)
    /\ j >= Len(class_seeds[ci])
    /\ ci' = ci + 1
    /\ j' = 0
    /\ UNCHANGED <<EnvVars, cache, pc, error, magnifications, tissue_mask,
                   tissue_mask_level, annotation, SessionVars, max_per_class,
                   frame, saved, hist>>

\* lines 117-122: every class done, the frame is pickled
SaveFrame ==
    /\ pc = "sampling"
    /\ ci > Len(class_list)
    /\ saved' = Append(saved, frame)
    /\ pc' = "sampled"
    /\ UNCHANGED <<EnvVars, cache, error, magnifications, tissue_mask,
                   tissue_mask_level, annotation, SessionVars, max_per_class,
                   frame, ci, j, hist>>

----------------------------------------------------------------------------

Next ==
    \/ ConstructMiss
    \/ ConstructHit
    \/ \E m \in MagnificationArgs, p \in PatchSizes : prepare_sampling(m, p)
    \/ \E n \in 0 .. MaxPerClass : sample_patches(n)
    \/ Attempt
    \/ PoolExhausted
    \/ SaveFrame

Spec == Init /\ [][Next]_vars

----------------------------------------------------------------------------
(* The resolver methods called directly on a sampler: get_level and        *)
(* level_converter, the latter there and back.                             *)

TargetArgs == {125, 250, 500, 1000, 1010}
ToleranceArgs == {1, 300, 1000}

InitResolver ==
    /\ wsi \in Pyramids
    /\ level0 \in Level0s
    /\ magnifications = MagnificationTable(wsi, level0)
    /\ pc = "resolver"
    /\ annotation_file = NoSlide
    /\ background = Unassigned
    /\ cache = <<>>
    /\ error = NoError
    /\ tissue_mask = NoArray
    /\ tissue_mask_level = None
    /\ annotation = NoSlide
    /\ level = None
    /\ leveldim = <<>>
    /\ ps = None
    /\ ps_tm = None
    /\ annotation_level = None
    /\ class_list = <<>>
    /\ class_seeds = <<>>
    /\ rejected = None
    /\ max_per_class = None
    /\ frame = <<>>
    /\ ci = None
    /\ j = None
    /\ saved = <<>>
    /\ probe = NoProbe
    /\ hist = [call |-> "none", generated |-> <<>>, calls |-> 0, base |-> 0,
               attempts |-> <<>>]

NotProbe == <<wsi, level0, annotation_file, background, cache, pc, error,
              magnifications, tissue_mask, tissue_mask_level, annotation,
              SessionVars, LoopVars, hist>>

CallGetLevel(magnification, tol) ==
    /\ pc = "resolver"
    /\ probe' = [fn |-> "get_level", args |-> <<magnification, tol>>,
                 result |-> get_level(magnifications, magnification, tol),
                 back |-> None]
    /\ UNCHANGED NotProbe

CallLevelConverter(x, lvl_in, lvl_out) ==
    /\ pc = "resolver"
    /\ probe' = [fn |-> "level_converter", args |-> <<x, lvl_in, lvl_out>>,
                 result |-> level_converter(wsi, x, lvl_in, lvl_out),
                 back |-> None]
    /\ UNCHANGED NotProbe

\* the result of the last conversion, converted back to the level it came from
ConvertBack ==
    /\ pc = "resolver"
    /\ probe.fn = "level_converter"
    /\ probe' = [probe EXCEPT !.fn = "round trip",
                    !.back = level_converter(wsi, probe.result, probe.args[3],
                                             probe.args[2])]
    /\ UNCHANGED NotProbe

NextResolver ==
    \/ \E m \in TargetArgs, tol \in ToleranceArgs : CallGetLevel(m, tol)
    \/ \E x \in 0 .. MaxValue, a \in Levels(wsi.ds), b \in Levels(wsi.ds) :
          CallLevelConverter(x, a, b)
    \/ ConvertBack

SpecResolver == InitResolver /\ [][NextResolver]_vars

----------------------------------------------------------------------------
(* Sessions on a one-level slide, side by side, whose mask holds True in   *)
(* its first k cells (row by row), prepared with a patch as large as the   *)
(* slide: the coverage of the first seed's patch is k / side^2.            *)

SquareSlide(side) == [dims |-> << <<side, side>> >>, ds |-> <<1>>]

FirstCells(side, k) ==
    [shape |-> <<side, side>>,
     true |-> {<<(i - 1) \div side, (i - 1) % side>> : i \in 1 .. k}]

\* one of the orders shuffle can leave the pool in: row by row
RowOrder(side, k) == [i \in 1 .. k |-> <<(i - 1) \div side, (i - 1) % side>>]

InitBoundary ==
    \E side \in 1 .. MaxSide : \E k \in 0 .. side * side :
        /\ wsi = SquareSlide(side)
        /\ level0 = 10
        /\ magnifications = MagnificationTable(wsi, level0)
        /\ annotation_file = NoSlide
        /\ background = "tissue mask"
        /\ tissue_mask_level = get_level(magnifications, 125, 1000)
        /\ tissue_mask = FirstCells(side, k)
        /\ cache = [f \in {MaskFile} |-> tissue_mask]
        /\ annotation = NoSlide
        /\ level = get_level(magnifications, 1000, 1)
        /\ leveldim = At(wsi.dims, level)
        /\ ps = side
        /\ ps_tm = level_converter(wsi, ps, level, tissue_mask_level)
        /\ annotation_level = None
        /\ class_list = <<0>>
        /\ class_seeds = <<RowOrder(side, k)>>
        /\ rejected = 0
        /\ pc = "prepared"
        /\ error = NoError
        /\ max_per_class = None
        /\ frame = <<>>
        /\ ci = None
        /\ j = None
        /\ saved = <<>>
        /\ probe = NoProbe
        /\ hist = [call |-> "prepare",
                   generated |-> <<[mask |-> tissue_mask, level |-> tissue_mask_level]>>,
                   calls |-> 0, base |-> 0, attempts |-> <<>>]

NextBoundary ==
    \/ \E n \in 1 .. 2 : sample_patches(n)
    \/ Attempt
    \/ PoolExhausted
    \/ SaveFrame

SpecBoundary == InitBoundary /\ [][NextBoundary]_vars

----------------------------------------------------------------------------
(* Vocabulary of the properties.                                           *)

\* the attempts the running (or last) sample_patches call made for class c
AttemptsOf(c) == SelectSeq(hist.attempts, LAMBDA a : a.class = c)

\* the rows of the frame that carry class c
RowsOf(c) == SelectSeq(frame, LAMBDA r : r.class = c)

Rejections == SelectSeq(hist.attempts, LAMBDA a : a.kind \in {"tissue", "annotation"})

RECURSIVE SumOver(_, _)
SumOver(f, S) ==
    IF S = {} THEN 0
    ELSE LET x == CHOOSE y \in S : TRUE IN f[x] + SumOver(f, S \ {x})

\* the sum over the classes of min(max_per_class, pool length)
Budget ==
    SumOver([i \in DOMAIN class_seeds |-> Min(max_per_class, Len(class_seeds[i]))],
            DOMAIN class_seeds)

Elements(seq) == {seq[i] : i \in DOMAIN seq}

----------------------------------------------------------------------------
(* C1. Cap enforcement: when sample_patches has returned, no class has more *)
(* than max_per_class rows in the frame, and a class has fewer only if     *)
(* every seed of its pool was attempted.                                   *)
C1_CapEnforcement ==
    pc = "sampled" =>
        \A i \in DOMAIN class_list :
            LET got == Len(RowsOf(class_list[i]))
                tried == Len(AttemptsOf(class_list[i]))
            IN  /\ got <= max_per_class
                /\ got < max_per_class => tried = Len(class_seeds[i])

(* C1 for caps of at least one: the same, leaving max_per_class = 0 aside. *)
C1_CapPositive == max_per_class >= 1 => C1_CapEnforcement

C3_RoundTripWithinOne ==
    probe.fn = "round trip" => Abs(probe.args[1] - probe.back) <= 1

(* C3, amended. Converting v from level A to level B and back never gives  *)
(* more than v and loses less than downsample[B] / downsample[A] + 1; it   *)
(* is within 1 of v whenever B is no coarser than A.                       *)
C3_RoundTrip ==
    probe.fn = "round trip" =>
        LET v == probe.args[1]
            a == At(wsi.ds, probe.args[2])
            b == At(wsi.ds, probe.args[3])
        IN  /\ probe.back <= v
            /\ (v - probe.back) * a < b + a
            /\ b <= a => v - probe.back <= 1

C3_Witness ==
    /\ probe.fn = "round trip"
    /\ probe.args[2] # probe.args[3]
    /\ probe.args[1] - probe.back >= 2

(* C4. End to end: with no annotation, a tissue mask that is True          *)
(* everywhere, patch size 2 and max_per_class 3, the first sample_patches *)
(* call returns, and its frame holds exactly 3 rows, all of class 0, with  *)
(* no seed rejected.                                                       *)
C4_EndToEnd ==
    (/\ pc \in {"sampled", "raised"}
     /\ hist.call = "sample"
     /\ hist.calls = 1
     /\ annotation = NoSlide
     /\ tissue_mask.true = Cells(tissue_mask.shape)
     /\ tissue_mask.true # {}
     /\ ps = 2
     /\ max_per_class = 3)
    => /\ pc = "sampled"
       /\ Len(frame) = 3
       /\ \A k \in DOMAIN frame : frame[k].class = 0
       /\ rejected = 0

(* C4 with self.background in place: the same, for the sessions in which   *)
(* the tissue-coverage check can run.                                      *)
C4_EndToEndWithBackground == background # Unassigned => C4_EndToEnd

(* C5. get_level returns a level only if its magnification is within the   *)
(* tolerance of the target, and returns None exactly when no level is.     *)
C5_GetLevelResult ==
    probe.fn = "get_level" =>
        LET m == probe.args[1]
            tol == probe.args[2]
            within(l) == Abs(At(magnifications, l) - m) <= tol
        IN  /\ probe.result # None =>
                probe.result \in Levels(magnifications) /\ within(probe.result)
            /\ probe.result = None <=> \A l \in Levels(magnifications) : ~within(l)

C5_Witness ==
    /\ probe.fn = "get_level"
    /\ probe.result \in Levels(magnifications)
    /\ probe.result > 0
    /\ At(magnifications, probe.result) # probe.args[1]
    /\ \E l \in Levels(magnifications) :
          Abs(At(magnifications, l) - probe.args[1]) > probe.args[2]

(* C6. With an annotation whose classes are {0, 1, 2}, once seed           *)
(* generation has returned there is a pool for each of 0, 1 and 2; no      *)
(* coordinate is in two pools or twice in one, and the pools together hold *)
(* every pixel of the tissue mask.                                         *)
C6_PoolsDisjoint ==
    (/\ pc = "prepared"
     /\ annotation # NoSlide
     /\ UniqueLabels(annotation, 0) = {0, 1, 2})
    => /\ class_list = <<0, 1, 2>>
       /\ Len(class_seeds) = 3
       /\ \A i, k \in DOMAIN class_seeds :
             i # k => Elements(class_seeds[i]) \cap Elements(class_seeds[k]) = {}
       /\ \A i \in DOMAIN class_seeds :
             Cardinality(Elements(class_seeds[i])) = Len(class_seeds[i])
       /\ Coordinates(tissue_mask.true, At(wsi.ds, tissue_mask_level))
             \subseteq UNION {Elements(class_seeds[i]) : i \in DOMAIN class_seeds}

(* C6, as the module stands: with an annotation whose classes are          *)
(* {0, 1, 2}, seed generation, once reached, builds the pools of the       *)
(* annotated classes (it does not stop at the unbound name of line 146).   *)
C6_PoolsBuilt ==
    (/\ hist.call = "prepare"
     /\ annotation # NoSlide
     /\ UniqueLabels(annotation, 0) = {0, 1, 2}
     /\ error.line \notin {87, 94})
    => error.type # "NameError"

(* C7. A construction that finds the mask an earlier construction of the   *)
(* same image generated and saved loads that very mask and recovers the    *)
(* level it was generated at.                                              *)
C7_MaskCacheRoundTrip ==
    /\ (hist.call = "construct miss" /\ hist.generated # <<>>) =>
          /\ cache[MaskFile] = tissue_mask
          /\ hist.generated[1] = [mask |-> tissue_mask, level |-> tissue_mask_level]
          /\ tissue_mask.shape = LevelShape(wsi, tissue_mask_level)
    /\ (hist.call = "construct hit" /\ hist.generated # <<>>) =>
          /\ pc = "ready"
          /\ tissue_mask = hist.generated[1].mask
          /\ tissue_mask_level = hist.generated[1].level

C7_Witness ==
    /\ hist.call = "construct hit"
    /\ hist.generated # <<>>
    /\ tissue_mask.shape[1] # tissue_mask.shape[2]
    /\ tissue_mask.true # {}
    /\ tissue_mask.true # Cells(tissue_mask.shape)
    /\ tissue_mask_level > 0

(* One step of a running sample_patches call, as C8 describes it.          *)
C8_Step ==
    pc = "sampling" =>
        /\ class_list' = class_list
        /\ class_seeds' = class_seeds
        /\ IF hist'.attempts = hist.attempts
           THEN frame' = frame
           ELSE LET a == hist'.attempts[Len(hist'.attempts)]
                    i == Index(class_list, a.class) + 1
                    seed == At(class_seeds[i], a.index)
                IN  /\ hist'.attempts = Append(hist.attempts, a)
                    /\ a.index = Len(AttemptsOf(a.class))
                    /\ a.index < Len(class_seeds[i])
                    /\ \A k \in DOMAIN hist.attempts :
                          Index(class_list, hist.attempts[k].class) + 1 <= i
                    /\ IF a.kind = "accept"
                       THEN /\ Len(frame') = Len(frame) + 1
                            /\ SubSeq(frame', 1, Len(frame)) = frame
                            /\ frame'[Len(frame')].class = a.class
                            /\ <<frame'[Len(frame')].h, frame'[Len(frame')].w>> = seed
                       ELSE frame' = frame

(* C8. Within a sample_patches call the seeds of a class are attempted at  *)
(* pool indices 0, 1, 2, ... in this order, each once, whatever the        *)
(* outcome of the attempt before; the classes are taken in the order of    *)
(* class_list; class_list and class_seeds do not change; an accepted seed  *)
(* is appended to the frame, a rejected one leaves the frame as it is.     *)
C8_SequentialNoRetry == [][C8_Step]_vars

C8_Witness ==
    /\ pc = "sampled"
    /\ Len(class_list) >= 2
    /\ Len(frame) >= 2
    /\ \E k \in DOMAIN hist.attempts :
          /\ k + 1 \in DOMAIN hist.attempts
          /\ hist.attempts[k].kind \in {"tissue", "annotation"}
          /\ hist.attempts[k + 1].class = hist.attempts[k].class
          /\ hist.attempts[k + 1].index = hist.attempts[k].index + 1
          /\ hist.attempts[k + 1].kind = "accept"

(* C9. No caller uses the None that get_level returns as an index: neither *)
(* construction (line 51) nor prepare_sampling (line 87) ends in the       *)
(* TypeError that indexing with None raises.                               *)
C9_CallersCheckNotFound ==
    ~(error.type = "TypeError" /\ error.line \in {51, 87})

====
